---- MODULE Spec2Model ----
(***************************************************************************)
(* Zendesk -> Shopify order-note sync (src/scipt.py).                      *)
(*                                                                         *)
(* Text is a sequence of one-character strings.  Every invocation of       *)
(* main() is a run; the Shopify store (order id -> note) is the only state *)
(* shared between runs.  An action is one external request together with   *)
(* the local computation that follows its response up to the next request. *)
(***************************************************************************)
EXTENDS Integers, Sequences, FiniteSets, TLC

(* ------------------------------ bounds --------------------------------- *)

\* longest order note present in the store before the first run
MaxNoteLen == 2
\* longest comment list the comment fetch returns
MaxComments == 3
\* number of order-like pieces in a text handed to the extractor
MaxPieces == 2
\* last reading of the wall clock (minutes)
MaxClock == 1

(* ------------------------------ characters ----------------------------- *)

None == <<"None">>

Digits == {"0", "1", "2", "3", "4", "5", "6", "7", "8", "9"}

UpperLetters ==
  {"A", "B", "C", "D", "E", "F", "G", "H", "I", "J", "K", "L", "M",
   "N", "O", "P", "Q", "R", "S", "T", "U", "V", "W", "X", "Y", "Z"}

LowerLetters ==
  {"a", "b", "c", "d", "e", "f", "g", "h", "i", "j", "k", "l", "m",
   "n", "o", "p", "q", "r", "s", "t", "u", "v", "w", "x", "y", "z"}

\* str.strip()/rstrip() without arguments remove these (ASCII part)
Whitespace == {" ", "\t", "\n", "\r", "\f"}

\* \w of the re module: letters, digits and the underscore
IsWordChar(c) == c \in UpperLetters \cup LowerLetters \cup Digits \cup {"_"}

IsDigit(c) == c \in Digits

(* ------------------------------ str methods ---------------------------- *)

RECURSIVE rstrip(_)
rstrip(s) ==
  IF s = <<>> THEN <<>>
  ELSE IF s[Len(s)] \in Whitespace THEN rstrip(SubSeq(s, 1, Len(s) - 1))
  ELSE s

RECURSIVE lstrip(_)
lstrip(s) ==
  IF s = <<>> THEN <<>>
  ELSE IF s[1] \in Whitespace THEN lstrip(Tail(s))
  ELSE s

strip(s) == rstrip(lstrip(s))

\* x or ""  /  d.get(k, "") for a text that may be absent
OrEmpty(x) == IF x = None THEN <<>> ELSE x

(* ------------------------------ extractor ------------------------------ *)

\* the quantifier of \d{6}
OrderDigits == 6

\* \b at the gap before position i (1 .. Len(s)+1)
WordBoundary(s, i) ==
  LET before == i > 1 /\ IsWordChar(s[i - 1])
      after  == i <= Len(s) /\ IsWordChar(s[i])
  IN  before # after

\* \bA\d{6}\b matched with its first character at position i
MatchAtTrailingUnanchored(s, i) ==
  /\ i + OrderDigits <= Len(s)
  /\ WordBoundary(s, i)
  /\ s[i] = "A"
  /\ \A k \in 1..OrderDigits : IsDigit(s[i + k])

MatchAt(s, i) ==
  /\ i + OrderDigits <= Len(s)
  /\ WordBoundary(s, i)
  /\ s[i] = "A"
  /\ \A k \in 1..OrderDigits : IsDigit(s[i + k])
  /\ WordBoundary(s, i + OrderDigits + 1)

\* re.search: the scan tries start positions left to right
RECURSIVE SearchFrom(_, _)
SearchFrom(s, i) ==
  IF i > Len(s) THEN None
  ELSE IF MatchAt(s, i) THEN SubSeq(s, i, i + OrderDigits)
  ELSE SearchFrom(s, i + 1)

extract_shopify_order_name(note_text) == SearchFrom(note_text, 1)

(* ------------------------------ selector ------------------------------- *)

\* a Zendesk comment; public is "true", "false" or "absent" (no such key),
\* created_at.iso says whether datetime.fromisoformat accepts the string
NoTime == [iso |-> FALSE, minute |-> 0]

NoComment ==
  [id |-> 0, public |-> "absent", body |-> None, author_id |-> None,
   created_at |-> NoTime]

\* not c.get("public", True)
IsPrivate(c) == c.public = "false"

RECURSIVE LastPrivate(_)
LastPrivate(comments) ==
  IF comments = <<>> THEN NoComment
  ELSE IF IsPrivate(comments[Len(comments)]) THEN comments[Len(comments)]
  ELSE LastPrivate(SubSeq(comments, 1, Len(comments) - 1))

\* the loop of get_latest_private_comment over the fetched list
RECURSIVE FirstPrivate(_)
FirstPrivate(comments) ==
  IF comments = <<>> THEN NoComment
  ELSE IF IsPrivate(Head(comments)) THEN Head(comments)
  ELSE FirstPrivate(Tail(comments))

(* ------------------------------ composer ------------------------------- *)

DigitChar(n) ==
  CASE n = 0 -> "0" [] n = 1 -> "1" [] n = 2 -> "2" [] n = 3 -> "3"
    [] n = 4 -> "4" [] n = 5 -> "5" [] n = 6 -> "6" [] n = 7 -> "7"
    [] n = 8 -> "8" [] OTHER -> "9"

\* strftime("%Y-%m-%d %H:%M UTC") of an instant given in minutes: the date
\* and the hour are fixed, only the minute digit varies
strftime(m) ==
  <<"2", "4", "-", "0", "1", " ", "0", "0", ":", "0", DigitChar(m),
    " ", "U", "T", "C">>

\* the try/except around fromisoformat: a rejected created_at gives now()
ParseOrNowAlwaysNow(created_at, now) == now

ParseOrNow(created_at, now) ==
  IF created_at.iso THEN created_at.minute ELSE now

build_note_block(ticket_id, agent_name, created_at, note_body, now) ==
  LET date_str == strftime(ParseOrNow(created_at, now))
      header   == <<"#">> \o ticket_id \o <<" ", "|", " ">> \o agent_name
                  \o <<" ", "|", " ">> \o date_str
  IN  header \o <<"\n", "\n">> \o strip(note_body)
        \o <<"\n", "\n", "-", "-", "-", "\n">>

\* user.get("name") or f"User {user_id}"
DisplayName(name, user_id) ==
  IF name = None \/ name = <<>>
  THEN <<"U", "s", "e", "r", " ">> \o user_id
  ELSE name

(* ------------------------------ appender ------------------------------- *)

MergeNoStrip(existing, note_block) ==
  LET existing_note == OrEmpty(existing)
  IN  IF strip(existing_note) # <<>>
      THEN existing_note \o <<"\n", "\n">> \o note_block
      ELSE note_block

MergeOneNewline(existing, note_block) ==
  LET existing_note == OrEmpty(existing)
  IN  IF strip(existing_note) # <<>>
      THEN rstrip(existing_note) \o <<"\n">> \o note_block
      ELSE note_block

\* new_note of append_note_to_shopify_order
Merge(existing, note_block) ==
  LET existing_note == OrEmpty(existing)
  IN  IF strip(existing_note) # <<>>
      THEN rstrip(existing_note) \o <<"\n", "\n">> \o note_block
      ELSE note_block

(* ------------------------------ state ---------------------------------- *)

\* the invocations of main()
Runs == {1, 2}

\* the orders of the store, by id, and the name of each
OrderIds == {1, 2}

Name1 == <<"A", "1", "1", "1", "1", "1", "1">>
Name2 == <<"A", "2", "2", "2", "2", "2", "2">>

ShopName(id) == IF id = 1 THEN Name1 ELSE Name2

NoOrder == [id |-> 0, name |-> None, note |-> None]

Unset == <<"Unset">>

VARIABLES
  pc,          \* where each run stands: the request it issues next
  err,         \* the error a run detected, "" while none
  ticket_id,   \* sys.argv[1]
  dry_run,     \* "--dry-run" in sys.argv[2:]
  comments,    \* the list the comment fetch returned
  comment,     \* the comment the selector returned
  note_body,
  agent_name,
  order_name,
  orders,      \* the ids of the orders the order query returned, in order
  order,       \* orders[0] as read at the lookup
  note_block,
  new_note,
  printed,     \* the note shown by the dry-run preview
  calls,       \* the external requests a run issued, in order
  shop_notes,  \* the store: order id -> note
  now,         \* the wall clock, in minutes
  text,        \* input of a direct call of the extractor
  extracted    \* its result

vars ==
  <<pc, err, ticket_id, dry_run, comments, comment, note_body, agent_name,
    order_name, orders, order, note_block, new_note, printed, calls,
    shop_notes, now, text, extracted>>

locals ==
  <<ticket_id, dry_run, comments, comment, note_body, agent_name, order_name,
    orders, order, note_block, new_note, printed>>

(* ------------------------------ inputs --------------------------------- *)

OneTicket == {<<"7">>}

BodyRef1  == <<" ">> \o Name1 \o <<"\n">>
BodyRef2  == <<"x", " ">> \o Name2
BodyNoRef == <<"B", "1", "1", "1", "1", "1", "1">>
BodyBlank == <<" ", "\n">>

Iso0  == [iso |-> TRUE, minute |-> 0]

Cmt(i, pub, body, at) ==
  [id |-> i, public |-> pub, body |-> body, author_id |-> <<"5">>,
   created_at |-> at]

\* comment lists a ticket may hold, newest first
SampleLists ==
  { <<>>,
    <<Cmt(1, "true", BodyRef2, Iso0), Cmt(2, "false", BodyRef1, Iso0),
      Cmt(3, "false", BodyRef2, Iso0)>>,
    <<Cmt(1, "false", BodyRef1, NoTime)>>,
    <<Cmt(1, "false", BodyBlank, Iso0)>>,
    <<Cmt(1, "false", BodyNoRef, Iso0)>> }

CommentKinds ==
  {[public |-> pub, body |-> b] :
     pub \in {"true", "false", "absent"}, b \in {BodyRef1, BodyRef2}}

RECURSIVE KindLists(_)
KindLists(n) ==
  IF n = 0 THEN {<<>>}
  ELSE LET shorter == KindLists(n - 1)
       IN  shorter \cup
           {Append(l, k) : l \in {x \in shorter : Len(x) = n - 1},
                           k \in CommentKinds}

\* every list of at most MaxComments comments, ids by position
AllLists ==
  {[i \in 1..Len(l) |-> Cmt(i, l[i].public, l[i].body, Iso0)] :
     l \in KindLists(MaxComments)}

\* what the user fetch may hold in user.name
UserNames == {<<"D">>, None}

\* what the order query may answer: ids of orders of the store
LookupResponses == {<<>>, <<1>>, <<2>>, <<2, 1>>}

NoteChars == {"p", " ", "\n"}

RECURSIVE NotesOfLen(_)
NotesOfLen(n) ==
  IF n = 0 THEN {<<>>}
  ELSE {Append(t, c) : t \in NotesOfLen(n - 1), c \in NoteChars}

\* the notes an order may hold before the first run (None: no note)
AllNotes == {None} \cup UNION {NotesOfLen(n) : n \in 0..MaxNoteLen}

SampleNotes == {None, <<" ">>, <<"p", "\n">>, <<"p", " ">>}

(* ------------------------------ initial states ------------------------- *)

InitRuns ==
  /\ pc = [p \in Runs |-> "idle"]
  /\ err = [p \in Runs |-> ""]
  /\ ticket_id = [p \in Runs |-> None]
  /\ dry_run = [p \in Runs |-> FALSE]
  /\ comments = [p \in Runs |-> <<>>]
  /\ comment = [p \in Runs |-> NoComment]
  /\ note_body = [p \in Runs |-> None]
  /\ agent_name = [p \in Runs |-> None]
  /\ order_name = [p \in Runs |-> None]
  /\ orders = [p \in Runs |-> <<>>]
  /\ order = [p \in Runs |-> NoOrder]
  /\ note_block = [p \in Runs |-> None]
  /\ new_note = [p \in Runs |-> None]
  /\ printed = [p \in Runs |-> None]
  /\ calls = [p \in Runs |-> <<>>]
  /\ now = 0

Init ==
  /\ InitRuns
  /\ \E n \in SampleNotes : shop_notes = [o \in OrderIds |-> IF o = 1 THEN n ELSE None]
  /\ text = <<>>
  /\ extracted = Unset

(* ------------------------------ control -------------------------------- *)

\* fail(msg): prints and leaves the process; `next` is where the caller
\* would go on
fail_returns(next) == next

fail(next) == "failed"

\* zendesk_request / shopify_request on a response that is not ok
RequestRetried(stage) == stage

RequestFailed(stage) == "failed"

\* the branch on dry_run after new_note is computed
AlwaysPut(dry) == "put"

AfterMerge(dry) == IF dry THEN "done" ELSE "put"

\* what the store holds after a successful PUT of {"id", "note"}
PutIfUnchanged(current, snapshot, payload) ==
  IF current = snapshot THEN payload ELSE current

PutEffect(current, snapshot, payload) == payload

Call(op, ok, id) == [op |-> op, ok |-> ok, id |-> id]

(* ------------------------------ actions -------------------------------- *)

\* main(): check_config, the argument check, the dry-run flag
Start(p, Tix, Flags) ==
  \E cfg_ok \in BOOLEAN, has_ticket \in BOOLEAN, t \in Tix, d \in Flags :
    /\ pc[p] = "idle"
    /\ IF ~cfg_ok
       THEN /\ err' = [err EXCEPT ![p] = "config"]
            /\ pc' = [pc EXCEPT ![p] = fail("idle")]
            /\ UNCHANGED <<ticket_id, dry_run>>
       ELSE IF ~has_ticket
       THEN /\ err' = [err EXCEPT ![p] = "usage"]
            /\ pc' = [pc EXCEPT ![p] = "failed"]
            /\ UNCHANGED <<ticket_id, dry_run>>
       ELSE /\ ticket_id' = [ticket_id EXCEPT ![p] = t]
            /\ dry_run' = [dry_run EXCEPT ![p] = d]
            /\ pc' = [pc EXCEPT ![p] = "fetch_comments"]
            /\ UNCHANGED err
    /\ UNCHANGED <<comments, comment, note_body, agent_name, order_name,
                   orders, order, note_block, new_note, printed, calls,
                   shop_notes, now, text, extracted>>

\* a run starts only when the runs before it are over (runs are numbered
\* in the order they start)
StartSeq(p, Tix, Flags) ==
  /\ \A q \in Runs : q < p => pc[q] \in {"done", "failed"}
  /\ Start(p, Tix, Flags)

\* get_latest_private_comment and the two checks that follow it
FetchComments(p, Lists) ==
  \E ok \in BOOLEAN, cs \in Lists :
    /\ pc[p] = "fetch_comments"
    /\ calls' = [calls EXCEPT ![p] = Append(@, Call("GET comments", ok, 0))]
    /\ IF ~ok
       THEN /\ err' = [err EXCEPT ![p] = "transport"]
            /\ pc' = [pc EXCEPT ![p] = RequestFailed("fetch_comments")]
            /\ UNCHANGED <<comments, comment, note_body>>
       ELSE LET c    == FirstPrivate(cs)
                body == strip(OrEmpty(c.body))
                e    == IF c.id = 0 THEN "no_private"
                        ELSE IF body = <<>> THEN "empty_body"
                        ELSE err[p]
            IN  /\ comments' = [comments EXCEPT ![p] = cs]
                /\ comment' = [comment EXCEPT ![p] = c]
                /\ note_body' = [note_body EXCEPT ![p] = body]
                /\ err' = [err EXCEPT ![p] = e]
                /\ pc' = [pc EXCEPT ![p] =
                            IF c.id = 0 \/ body = <<>>
                            THEN fail("fetch_user") ELSE "fetch_user"]
    /\ UNCHANGED <<ticket_id, dry_run, agent_name, order_name, orders, order,
                   note_block, new_note, printed, shop_notes, now, text,
                   extracted>>

\* get_zendesk_user_name, then the extraction of the order name
FetchUser(p) ==
  \E ok \in BOOLEAN, name \in UserNames :
    /\ pc[p] = "fetch_user"
    /\ calls' = [calls EXCEPT ![p] = Append(@, Call("GET user", ok, 0))]
    /\ IF ~ok
       THEN /\ err' = [err EXCEPT ![p] = "transport"]
            /\ pc' = [pc EXCEPT ![p] = RequestFailed("fetch_user")]
            /\ UNCHANGED <<agent_name, order_name>>
       ELSE LET found == extract_shopify_order_name(OrEmpty(note_body[p]))
            IN  /\ agent_name' = [agent_name EXCEPT ![p] =
                                    DisplayName(name, comment[p].author_id)]
                /\ order_name' = [order_name EXCEPT ![p] = found]
                /\ err' = [err EXCEPT ![p] =
                             IF found = None THEN "no_ref" ELSE @]
                /\ pc' = [pc EXCEPT ![p] =
                            IF found = None THEN fail("lookup") ELSE "lookup"]
    /\ UNCHANGED <<ticket_id, dry_run, comments, comment, note_body, orders,
                   order, note_block, new_note, printed, shop_notes, now,
                   text, extracted>>

\* find_shopify_order_by_name, build_note_block and the merge and the
\* dry-run branch of append_note_to_shopify_order
LookupOrder(p) ==
  \E ok \in BOOLEAN, ids \in LookupResponses :
    /\ pc[p] = "lookup"
    /\ calls' = [calls EXCEPT ![p] = Append(@, Call("GET orders", ok, 0))]
    /\ IF ~ok
       THEN /\ err' = [err EXCEPT ![p] = "transport"]
            /\ pc' = [pc EXCEPT ![p] = RequestFailed("lookup")]
            /\ UNCHANGED <<orders, order, note_block, new_note, printed>>
       ELSE IF ids = <<>>
       THEN /\ orders' = [orders EXCEPT ![p] = ids]
            /\ err' = [err EXCEPT ![p] = "no_order"]
            /\ pc' = [pc EXCEPT ![p] = fail("put")]
            /\ UNCHANGED <<order, note_block, new_note, printed>>
       ELSE LET o     == [id |-> ids[1], name |-> ShopName(ids[1]),
                          note |-> shop_notes[ids[1]]]
                block == build_note_block(ticket_id[p], agent_name[p],
                           comment[p].created_at, OrEmpty(note_body[p]), now)
                merged == Merge(o.note, block)
            IN  /\ orders' = [orders EXCEPT ![p] = ids]
                /\ order' = [order EXCEPT ![p] = o]
                /\ note_block' = [note_block EXCEPT ![p] = block]
                /\ new_note' = [new_note EXCEPT ![p] = merged]
                /\ printed' = [printed EXCEPT ![p] =
                                 IF dry_run[p] THEN merged ELSE @]
                /\ pc' = [pc EXCEPT ![p] = AfterMerge(dry_run[p])]
                /\ UNCHANGED err
    /\ UNCHANGED <<ticket_id, dry_run, comments, comment, note_body,
                   agent_name, order_name, shop_notes, now, text, extracted>>

\* the PUT of append_note_to_shopify_order
PutOrder(p) ==
  \E ok \in BOOLEAN :
    /\ pc[p] = "put"
    /\ calls' = [calls EXCEPT ![p] =
                   Append(@, Call("PUT order", ok, order[p].id))]
    /\ IF ok
       THEN /\ shop_notes' =
                 IF order[p].id \in OrderIds
                 THEN [shop_notes EXCEPT ![order[p].id] =
                         PutEffect(@, order[p].note, new_note[p])]
                 ELSE shop_notes
            /\ pc' = [pc EXCEPT ![p] = "done"]
            /\ UNCHANGED err
       ELSE /\ err' = [err EXCEPT ![p] = "transport"]
            /\ pc' = [pc EXCEPT ![p] = RequestFailed("put")]
            /\ UNCHANGED shop_notes
    /\ UNCHANGED <<locals, now, text, extracted>>

\* the wall clock moves on
Tick ==
  /\ now < MaxClock
  /\ now' = now + 1
  /\ UNCHANGED <<pc, err, locals, calls, shop_notes, text, extracted>>

(* ------------------------------ specifications ------------------------- *)

\* runs of main() started at any time, against one store
Next ==
  \/ Tick
  \/ \E p \in Runs :
       \/ Start(p, OneTicket, BOOLEAN)
       \/ FetchComments(p, SampleLists)
       \/ FetchUser(p)
       \/ LookupOrder(p)
       \/ PutOrder(p)

Spec == Init /\ [][Next]_vars

\* runs of main() one after another
NextSeq ==
  \/ Tick
  \/ \E p \in Runs :
       \/ StartSeq(p, OneTicket, BOOLEAN)
       \/ FetchComments(p, SampleLists)
       \/ FetchUser(p)
       \/ LookupOrder(p)
       \/ PutOrder(p)

SpecSeq == Init /\ [][NextSeq]_vars

\* a dry run and then a run that writes, over every note order 1 may hold
InitPreview ==
  /\ InitRuns
  /\ \E n \in AllNotes : shop_notes = [o \in OrderIds |-> IF o = 1 THEN n ELSE None]
  /\ text = <<>>
  /\ extracted = Unset

NextPreview ==
  \/ Tick
  \/ \E p \in Runs :
       \/ StartSeq(p, OneTicket, {p = 1})
       \/ FetchComments(p, SampleLists)
       \/ FetchUser(p)
       \/ LookupOrder(p)
       \/ PutOrder(p)

SpecPreview == InitPreview /\ [][NextPreview]_vars

\* one run up to the selection, over every comment list
NextSelect ==
  \E p \in {1} :
    \/ Start(p, OneTicket, BOOLEAN)
    \/ FetchComments(p, AllLists)

SpecSelect == Init /\ [][NextSelect]_vars

\* the extractor called on its own
TokenLetters == {"A", "B", "a"}
TokenDigits == {"1", "2"}
Separators == {<<>>, <<" ">>, <<"_">>}

\* a letter and six equal digits, or A and one digit less or more
Pieces ==
  {<<l>> \o [i \in 1..OrderDigits |-> d] : l \in TokenLetters, d \in TokenDigits}
  \cup {<<"A">> \o [i \in 1..n |-> "1"] : n \in {OrderDigits - 1, OrderDigits + 1}}

RECURSIVE TextsOf(_)
TextsOf(k) ==
  IF k = 0 THEN Separators
  ELSE {t \o pce \o sep : t \in TextsOf(k - 1), pce \in Pieces, sep \in Separators}

InitExtract ==
  /\ InitRuns
  /\ shop_notes = [o \in OrderIds |-> None]
  /\ text \in UNION {TextsOf(k) : k \in 0..MaxPieces}
  /\ extracted = Unset

Extract ==
  /\ extracted = Unset
  /\ extracted' = extract_shopify_order_name(text)
  /\ UNCHANGED <<pc, err, locals, calls, shop_notes, now, text>>

NextExtract == Extract

SpecExtract == InitExtract /\ [][NextExtract]_vars

(* ------------------------------ properties ---------------------------- *)

IsPrefix(a, b) == Len(a) <= Len(b) /\ SubSeq(b, 1, Len(a)) = a

Contains(s, sub) ==
  \E i \in 1..(Len(s) - Len(sub) + 1) : SubSeq(s, i, i + Len(sub) - 1) = sub

IsBlank(s) == \A i \in 1..Len(s) : s[i] \in Whitespace

\* s up to its last character that is not whitespace
TrimRight(s) ==
  LET keep == {i \in 1..Len(s) : s[i] \notin Whitespace}
  IN  IF keep = {} THEN <<>>
      ELSE SubSeq(s, 1, CHOOSE k \in keep : \A j \in keep : j <= k)

\* the merge policy as the specification words it
MergePolicy(existing, block) ==
  LET e == IF existing = None THEN <<>> ELSE existing
  IN  IF IsBlank(e) THEN block
      ELSE TrimRight(e) \o <<"\n", "\n">> \o block

PutCount(p) ==
  Cardinality({i \in 1..Len(calls[p]) : calls[p][i].op = "PUT order"})

Succeeded(p) == pc[p] = "done" /\ err[p] = ""

Wrote(p) == Succeeded(p) /\ ~dry_run[p]

\* the step in which run p's PUT succeeds
PutStep(p) == pc[p] = "put" /\ pc'[p] = "done"

\* C1: a dry run never issues the order write; a run without dry_run that
\* completes successfully has issued it exactly once
C1_WriteOnlyWhenNotDryRun ==
  \A p \in Runs :
    /\ dry_run[p] => PutCount(p) = 0
    /\ Wrote(p) => PutCount(p) = 1

C1_Witness ==
  \E p, q \in Runs :
    /\ Succeeded(p) /\ dry_run[p] /\ printed[p] # None
    /\ Wrote(q) /\ PutCount(q) = 1

\* C2: an order note changes only in the step that completes a run's whole
\* pipeline without error, and a completed run never turns into a failed
\* one: no run that ends in an error has changed a note
C2_NoPartialSuccess ==
  [][ /\ shop_notes' # shop_notes =>
           \E p \in Runs : PutStep(p) /\ err[p] = "" /\ err'[p] = ""
      /\ \A p \in Runs : pc[p] = "done" => pc'[p] = "done" /\ err'[p] = err[p]
      /\ \A p \in Runs : err[p] # "" => err'[p] # "" ]_vars

C2_Witness ==
  \E p, q \in Runs :
    /\ pc[p] = "failed" /\ err[p] = "transport" /\ Len(calls[p]) = 4
    /\ pc[q] = "failed" /\ err[q] = "no_order"

\* C3: a successful PUT stores the note merged from the note read at the
\* lookup, whatever the store holds by then; so when two runs that write the
\* same order both read the same note, the note left holds the block of one
\* of them only
LostUpdate ==
  \A p, q \in Runs :
    ( /\ p # q /\ Wrote(p) /\ Wrote(q)
      /\ order[p].id = order[q].id
      /\ order[p].note = order[q].note )
    => LET final == shop_notes[order[p].id]
       IN  /\ final \in {MergePolicy(order[p].note, note_block[p]),
                         MergePolicy(order[p].note, note_block[q])}
           /\ note_block[p] # note_block[q] =>
                ~(Contains(final, note_block[p]) /\ Contains(final, note_block[q]))

C3_LostUpdate ==
  [][ /\ \A p \in Runs :
           PutStep(p) =>
             shop_notes'[order[p].id] = MergePolicy(order[p].note, note_block[p])
      /\ LostUpdate' ]_vars

C3_Witness ==
  \E p, q \in Runs :
    /\ p # q /\ Wrote(p) /\ Wrote(q)
    /\ order[p].id = order[q].id
    /\ order[p].note = order[q].note
    /\ note_block[p] # note_block[q]
    /\ shop_notes[order[p].id] = new_note[q]
    /\ ~Contains(shop_notes[order[p].id], note_block[p])

\* two runs one after the other, both writing order 1
BothWrote(p, q) ==
  /\ p < q /\ Wrote(p) /\ Wrote(q)
  /\ order[p].id = order[q].id
  /\ order[q].note = new_note[p]

\* C4 as claimed: the note before a run is a prefix of the note after it
C4_PriorNoteIsPrefix ==
  [][ \A p \in Runs :
        PutStep(p) =>
          IsPrefix(OrEmpty(shop_notes[order[p].id]), shop_notes'[order[p].id]) ]_vars

\* C4 amended: in runs one after another, the note before a run, less its
\* trailing whitespace, is a prefix of the note after the run, and the block
\* follows that text after exactly one blank line (a note that was absent,
\* empty or all whitespace is replaced by the block)
C4_StrippedNoteIsPrefix ==
  [][ \A p \in Runs :
        PutStep(p) =>
          LET old  == OrEmpty(shop_notes[order[p].id])
              new  == shop_notes'[order[p].id]
              kept == TrimRight(old)
          IN  /\ IsPrefix(kept, new)
              /\ note_block[p][1] \notin Whitespace
              /\ new = IF kept = <<>> THEN note_block[p]
                       ELSE kept \o <<"\n", "\n">> \o note_block[p] ]_vars

C4_Witness ==
  \E p, q \in Runs :
    /\ BothWrote(p, q)
    /\ order[p].note = <<"p", " ">>
    /\ shop_notes[order[q].id] = new_note[q]

\* C5: the note computed by the appender is the block when the order's note
\* is absent, empty or all whitespace, and otherwise the note less its
\* trailing whitespace, two newlines and the block; the dry-run preview and
\* the note sent by the PUT are that same value
C5_MergePolicy ==
  \A p \in Runs :
    /\ printed[p] # None =>
         /\ dry_run[p]
         /\ printed[p] = MergePolicy(order[p].note, note_block[p])
    /\ PutCount(p) = 1 =>
         new_note[p] = MergePolicy(order[p].note, note_block[p])
    /\ \A q \in Runs :
         ( /\ printed[p] # None /\ PutCount(q) = 1
           /\ order[p].note = order[q].note
           /\ note_block[p] = note_block[q] )
         => printed[p] = new_note[q]

C5_Witness ==
  \E p, q \in Runs :
    /\ printed[p] # None /\ Wrote(q)
    /\ order[p].note = <<"p", "\n">> /\ order[q].note = order[p].note
    /\ note_block[p] = note_block[q]
    /\ printed[p] = new_note[q]

\* the inputs of two runs that the claim holds fixed
SameInputs(p, q) ==
  /\ ticket_id[p] = ticket_id[q]
  /\ comments[p] = comments[q]
  /\ agent_name[p] = agent_name[q]
  /\ orders[p] = orders[q]

TwoCopies(p, q) ==
  LET first == OrEmpty(order[p].note)
      lead  == IF IsBlank(first) THEN <<>>
               ELSE TrimRight(first) \o <<"\n", "\n">>
  IN  /\ note_block[p] = note_block[q]
      /\ shop_notes[order[q].id] =
           lead \o note_block[p] \o <<"\n">> \o note_block[q]

\* C6 as claimed: the second of two runs with the same inputs leaves two
\* identical copies of the block
C6_SecondRunDuplicates ==
  \A p, q \in Runs : BothWrote(p, q) /\ SameInputs(p, q) => TwoCopies(p, q)

\* C6 amended: so it is when the selected comment's created_at is a
\* timestamp fromisoformat accepts (otherwise each run stamps its block with
\* its own current time)
C6_SecondRunDuplicatesIso ==
  \A p, q \in Runs :
    BothWrote(p, q) /\ SameInputs(p, q) /\ comment[p].created_at.iso
    => TwoCopies(p, q)

C6_Witness ==
  \E p, q \in Runs :
    /\ BothWrote(p, q) /\ SameInputs(p, q) /\ comment[p].created_at.iso
    /\ now > 0
    /\ Contains(shop_notes[order[q].id], note_block[p] \o <<"\n">> \o note_block[p])

\* a letter of `letters` and exactly OrderDigits digits at position i of s,
\* with no character of `joined` next to it on either side
TokenAt(s, i, letters, joined) ==
  /\ i >= 1 /\ i + OrderDigits <= Len(s)
  /\ s[i] \in letters
  /\ \A k \in 1..OrderDigits : s[i + k] \in Digits
  /\ i = 1 \/ s[i - 1] \notin joined
  /\ i + OrderDigits = Len(s) \/ s[i + OrderDigits + 1] \notin joined

Alphanumeric == UpperLetters \cup LowerLetters \cup Digits

AnyLetterTokens(s) == {i \in 1..Len(s) : TokenAt(s, i, UpperLetters, Alphanumeric)}

ATokens(s) == {i \in 1..Len(s) : TokenAt(s, i, {"A"}, Alphanumeric \cup {"_"})}

\* C7 as claimed: a text holding a standalone token of any uppercase letter
\* and six digits gives such a token of the text, a text holding none gives
\* None
C7_AnyUppercaseLetter ==
  extracted # Unset =>
    IF AnyLetterTokens(text) = {}
    THEN extracted = None
    ELSE \E i \in AnyLetterTokens(text) :
           extracted = SubSeq(text, i, i + OrderDigits)

\* C7 amended: a text holding the letter A followed by exactly six digits,
\* with no letter, digit or underscore next to it on either side, gives the
\* leftmost such token; a text holding none gives None
C7_LetterA ==
  extracted # Unset =>
    IF ATokens(text) = {}
    THEN extracted = None
    ELSE LET i == CHOOSE k \in ATokens(text) : \A j \in ATokens(text) : k <= j
         IN  extracted = SubSeq(text, i, i + OrderDigits)

C7_Witness ==
  /\ extracted # Unset /\ extracted # None
  /\ Cardinality(ATokens(text)) = 2
  /\ \E i \in ATokens(text) : SubSeq(text, i, i + OrderDigits) # extracted

PrivateAt(cs) == {i \in 1..Len(cs) : cs[i].public = "false"}

\* C8: once the comment fetch has answered, the selected comment is the
\* first of the list that is not public, whatever follows it, and never a
\* public one; when the list has none, nothing is selected and the run has
\* failed
C8_FirstInternalComment ==
  \A p \in Runs :
    (Len(calls[p]) >= 1 /\ calls[p][1].ok) =>
      IF PrivateAt(comments[p]) = {}
      THEN comment[p] = NoComment /\ pc[p] = "failed" /\ err[p] = "no_private"
      ELSE /\ \E i \in PrivateAt(comments[p]) :
                /\ \A j \in PrivateAt(comments[p]) : i <= j
                /\ comment[p] = comments[p][i]
           /\ comment[p].public = "false"

C8_Witness ==
  \E p \in Runs :
    /\ Len(comments[p]) = MaxComments
    /\ comments[p][1].public \in {"true", "absent"}
    /\ PrivateAt(comments[p]) = 2..MaxComments
    /\ comments[p][2].body # comments[p][MaxComments].body
    /\ comment[p] = comments[p][2]

CallOrder == <<"GET comments", "GET user", "GET orders", "PUT order">>

\* C9: a run issues its requests in the order comment fetch, user fetch,
\* order lookup, order write, each at most once; a request that failed is
\* the last one; nothing is requested after a run found no internal comment,
\* an empty body, no order name or no order; nothing at all is requested
\* when the configuration is incomplete
C9_FailFast ==
  \A p \in Runs :
    LET n == Len(calls[p])
    IN  /\ n <= Len(CallOrder)
        /\ \A i \in 1..n : calls[p][i].op = CallOrder[i]
        /\ \A i \in 1..(n - 1) : calls[p][i].ok
        /\ err[p] \in {"config", "usage"} => n = 0
        /\ (n >= 1 /\ calls[p][1].ok /\ PrivateAt(comments[p]) = {}) => n = 1
        /\ (n >= 1 /\ calls[p][1].ok /\ IsBlank(OrEmpty(comment[p].body))) => n = 1
        /\ (n >= 2 /\ calls[p][2].ok /\ ATokens(note_body[p]) = {}) => n = 2
        /\ (n >= 3 /\ calls[p][3].ok /\ orders[p] = <<>>) => n = 3
        /\ err[p] # "" => pc[p] = "failed"

C9_Witness ==
  \E p, q \in Runs :
    /\ err[p] = "no_ref" /\ Len(calls[p]) = 2
    /\ err[q] = "config" /\ calls[q] = <<>>

\* C10: the order a run writes to bears the order name the run extracted
C10_WritesOnlyMatchingOrder ==
  \A p \in Runs :
    \A i \in 1..Len(calls[p]) :
      calls[p][i].op = "PUT order" => ShopName(calls[p][i].id) = order_name[p]

====
